---- MODULE Spec2Model ----
(***************************************************************************)
(* A model of the scripts of ap_renamer/:                                  *)
(*   ap_renamer.py    the interactive orchestrator (CDP / power inline),   *)
(*   lldp_renamer.py  the policy-driven LLDP flow,                         *)
(*   ap_renamer1.py   the LLDP parser of the earlier single-policy flow.   *)
(* Python strings are modelled as sequences of one-character strings, so   *)
(* that strip, lower, substring search and the regular expressions of the  *)
(* source are computed character by character.                             *)
(***************************************************************************)
EXTENDS Integers, Sequences, FiniteSets, TLC

(***************************************************************************)
(* Characters and the str methods the source uses.                         *)
(***************************************************************************)

\* The printable ASCII characters in code-point order (32..126): the order
\* Python's sorted() compares strings by. (Code point 96 is named, not
\* written: no input holds it.)
Ascii ==
    <<" ","!","\"","#","$","%","&","'","(",")","*","+",",","-",".","/",
      "0","1","2","3","4","5","6","7","8","9",":",";","<","=",">","?","@",
      "A","B","C","D","E","F","G","H","I","J","K","L","M","N","O","P","Q",
      "R","S","T","U","V","W","X","Y","Z","[","\\","]","^","_","grave",
      "a","b","c","d","e","f","g","h","i","j","k","l","m","n","o","p","q",
      "r","s","t","u","v","w","x","y","z","{","|","}","~">>

Ord(c) == CHOOSE i \in 1..Len(Ascii) : Ascii[i] = c

IsUpper(c) == c \in {Ascii[i] : i \in 34..59}

\* str.lower() on one character
LowerChar(c) == IF IsUpper(c) THEN Ascii[Ord(c) + 32] ELSE c

\* str.lower()
LowerStr(s) == [i \in 1..Len(s) |-> LowerChar(s[i])]

\* \d of the re module, on ASCII input
IsDigit(c) == c \in {"0","1","2","3","4","5","6","7","8","9"}

\* \s of the re module and the characters str.strip() removes
IsSpace(c) == c \in {" ", "\t"}

RECURSIVE LStrip(_)
LStrip(s) == IF s # <<>> /\ IsSpace(Head(s)) THEN LStrip(Tail(s)) ELSE s

RECURSIVE RStrip(_)
RStrip(s) ==
    IF s # <<>> /\ IsSpace(s[Len(s)]) THEN RStrip(SubSeq(s, 1, Len(s) - 1)) ELSE s

\* str.strip()
Strip(s) == RStrip(LStrip(s))

\* whether sub occurs in s at index i
OccursAt(s, sub, i) ==
    /\ i >= 1
    /\ i + Len(sub) - 1 <= Len(s)
    /\ SubSeq(s, i, i + Len(sub) - 1) = sub

\* str.find, 1-based; 0 when sub does not occur
IndexOf(s, sub) ==
    IF \E i \in 1..Len(s) + 1 : OccursAt(s, sub, i)
    THEN CHOOSE i \in 1..Len(s) + 1 :
             /\ OccursAt(s, sub, i)
             /\ \A j \in 1..i - 1 : ~OccursAt(s, sub, j)
    ELSE 0

\* the in operator on strings
Contains(s, sub) == IndexOf(s, sub) # 0

\* str.startswith
StartsWith(s, sub) == OccursAt(s, sub, 1)

\* s < t in Python's string order (lexicographic by code point)
RECURSIVE StrLess(_, _)
StrLess(s, t) ==
    IF t = <<>> THEN FALSE
    ELSE IF s = <<>> THEN TRUE
    ELSE IF Head(s) = Head(t) THEN StrLess(Tail(s), Tail(t))
    ELSE Ord(Head(s)) < Ord(Head(t))

\* sorted(S) for a finite set of strings
RECURSIVE Sorted(_)
Sorted(S) ==
    IF S = {} THEN <<>>
    ELSE LET m == CHOOSE x \in S : \A y \in S \ {x} : StrLess(x, y)
         IN <<m>> \o Sorted(S \ {m})

(***************************************************************************)
(* String constants of the source.                                         *)
(***************************************************************************)

S_GigabitEthernet ==
    <<"G","i","g","a","b","i","t","E","t","h","e","r","n","e","t">>
S_TenGigabitEthernet ==
    <<"T","e","n","G","i","g","a","b","i","t","E","t","h","e","r","n","e","t">>
S_FastEthernet ==
    <<"F","a","s","t","E","t","h","e","r","n","e","t">>
S_gig ==
    <<"g","i","g">>
S_gi ==
    <<"g","i">>
S_ten ==
    <<"t","e","n">>
S_te ==
    <<"t","e">>
S_fast ==
    <<"f","a","s","t">>
S_fa ==
    <<"f","a">>

S_unknown ==
    <<"<","u","n","k","n","o","w","n",">">>
S_c91 ==
    <<"c","9","1">>
S_air ==
    <<"a","i","r","-">>
S_device_id ==
    <<"d","e","v","i","c","e"," ","i","d",":">>
S_interface_colon ==
    <<"i","n","t","e","r","f","a","c","e",":">>
S_default_interface ==
    <<"d","e","f","a","u","l","t"," ","i","n","t","e","r","f","a","c","e"," ">>
S_interface ==
    <<"i","n","t","e","r","f","a","c","e"," ">>
S_description ==
    <<"d","e","s","c","r","i","p","t","i","o","n"," ">>
S_dot ==
    <<".">>
S_indent2 ==
    <<" "," ">>
S_indent4 ==
    <<" "," "," "," ">>
S_skipping ==
    <<" "," ","S","k","i","p","p","i","n","g"," ","u","n","k","n","o","w","n"," ",
      "i","n","t","e","r","f","a","c","e">>

S_block_separator ==
    <<"-","-","-","-","-","-","-","-","-","-","-","-","-","-","-","-","-","-","-","-",
      "-","-","-","-","-","-","-","-","-","-","-","-","-","-","-","-","-","-","-","-",
      "-","-","-","-","-","-","-","-">>
S_local_intf ==
    <<"L","o","c","a","l"," ","I","n","t","f",":">>
S_system_name ==
    <<"S","y","s","t","e","m"," ","N","a","m","e",":">>
S_system_description ==
    <<"S","y","s","t","e","m"," ","D","e","s","c","r","i","p","t","i","o","n",":">>
S_LEAF1 ==
    <<"L","E","A","F","1">>
S_ARISTA_AP ==
    <<"A","R","I","S","T","A"," ","A","P">>
S_exit ==
    <<"e","x","i","t">>

(***************************************************************************)
(* normalize_interface_name (ap_renamer.py)                                *)
(***************************************************************************)

\* index of the first digit of s, 0 when there is none: where
\* re.search(r'(\d+(?:/\d+)*)') starts its match
FirstDigit(s) ==
    IF \E i \in 1..Len(s) : IsDigit(s[i])
    THEN CHOOSE i \in 1..Len(s) :
             IsDigit(s[i]) /\ \A j \in 1..i - 1 : ~IsDigit(s[j])
    ELSE 0

\* end of the run of digits that starts at i: \d+ is greedy
RECURSIVE DigitsEnd(_, _)
DigitsEnd(s, i) ==
    IF i + 1 <= Len(s) /\ IsDigit(s[i + 1]) THEN DigitsEnd(s, i + 1) ELSE i

\* end of the match of \d+(?:/\d+)* that starts at i
RECURSIVE SlotPathEnd(_, _)
SlotPathEnd(s, i) ==
    LET e == DigitsEnd(s, i)
    IN IF e + 2 <= Len(s) /\ s[e + 1] = "/" /\ IsDigit(s[e + 2])
       THEN SlotPathEnd(s, e + 2)
       ELSE e

normalize_interface_name(ifname) ==
    IF ifname = <<>> THEN ifname
    ELSE LET t == Strip(ifname)
             m == FirstDigit(t)
         IN IF m = 0 THEN t
            ELSE LET nums == SubSeq(t, m, SlotPathEnd(t, m))
                     low == LowerStr(t)
                 IN IF Contains(low, S_gig) \/ StartsWith(low, S_gi)
                    THEN S_GigabitEthernet \o nums
                    ELSE IF Contains(low, S_ten) \/ StartsWith(low, S_te)
                    THEN S_TenGigabitEthernet \o nums
                    ELSE IF Contains(low, S_fast) \/ StartsWith(low, S_fa)
                    THEN S_FastEthernet \o nums
                    ELSE t

(***************************************************************************)
(* find_aps_in_cdp (ap_renamer.py): the scan of 'show power inline'.  An    *)
(* output is the sequence of its lines (str.splitlines).                   *)
(***************************************************************************)

\* end of the run of non-space characters that holds index i
RECURSIVE NonSpaceEnd(_, _)
NonSpaceEnd(s, i) ==
    IF i + 1 <= Len(s) /\ ~IsSpace(s[i + 1]) THEN NonSpaceEnd(s, i + 1) ELSE i

\* whether (C91[^\s]*|AIR-[^\s]+), ignoring case, matches at index i
DevMatchAt(line, i) ==
    \/ OccursAt(LowerStr(line), S_c91, i)
    \/ /\ OccursAt(LowerStr(line), S_air, i)
       /\ i + 4 <= Len(line)
       /\ ~IsSpace(line[i + 4])

\* where dev_pat.search(line) matches, 0 when it does not
DevStart(line) ==
    IF \E i \in 1..Len(line) : DevMatchAt(line, i)
    THEN CHOOSE i \in 1..Len(line) :
             DevMatchAt(line, i) /\ \A j \in 1..i - 1 : ~DevMatchAt(line, j)
    ELSE 0

\* m.group(0).strip(): the match runs to the end of the non-space run
DeviceOf(line) ==
    Strip(SubSeq(line, DevStart(line), NonSpaceEnd(line, DevStart(line))))

\* intf_pat = ^\s*(\S+): the first token of the line, or the sentinel
FirstToken(line) ==
    LET t == LStrip(line)
    IN IF t = <<>> THEN S_unknown ELSE SubSeq(t, 1, NonSpaceEnd(t, 1))

RECURSIVE find_aps_in_cdp(_)
find_aps_in_cdp(output) ==
    IF output = <<>> THEN <<>>
    ELSE LET line == Head(output)
         IN (IF DevStart(line) = 0 THEN <<>>
             ELSE << <<DeviceOf(line), normalize_interface_name(FirstToken(line))>> >>)
            \o find_aps_in_cdp(Tail(output))

\* the devices of aps seen on interface k, in the order seen
RECURSIVE DevicesOn(_, _)
DevicesOn(aps, k) ==
    IF aps = <<>> THEN <<>>
    ELSE (IF Head(aps)[2] = k THEN <<Head(aps)[1]>> ELSE <<>>) \o DevicesOn(Tail(aps), k)

\* interfaces.setdefault(intf, []).append(dev) over aps
GroupByInterface(aps) ==
    [k \in {aps[i][2] : i \in 1..Len(aps)} |-> DevicesOn(aps, k)]

(***************************************************************************)
(* parse_cdp_neighbors_detail (ap_renamer.py)                              *)
(***************************************************************************)

EmptyDict == [k \in {} |-> <<>>]

\* d[k] = v
DictSet(d, k, v) == [x \in DOMAIN d \cup {k} |-> IF x = k THEN v ELSE d[x]]

\* device_re = ^\s*Device ID:\s*(.+), ignoring case: <<group(1).strip()>>, or
\* <<>> when the line does not match (.+ needs a character after the label)
DeviceIdMatch(line) ==
    LET t == LStrip(line)
    IN IF StartsWith(LowerStr(t), S_device_id) /\ Len(t) > Len(S_device_id)
       THEN <<Strip(SubSeq(t, Len(S_device_id) + 1, Len(t)))>>
       ELSE <<>>

\* if_re = ^\s*Interface:\s*([^,]+), ignoring case: <<group(1).strip()>>, or
\* <<>> when the line does not match (a character before the first comma)
InterfaceMatch(line) ==
    LET t == LStrip(line)
        rest == SubSeq(t, Len(S_interface_colon) + 1, Len(t))
        c == IndexOf(rest, <<",">>)
    IN IF StartsWith(LowerStr(t), S_interface_colon) /\ c >= 2
       THEN <<Strip(SubSeq(rest, 1, c - 1))>>
       ELSE <<>>

\* a loop body that leaves current_device set after it wrote an entry
CdpLineKeepsDevice(line, res, dev) ==
    LET m == DeviceIdMatch(line)
        mi == InterfaceMatch(line)
    IN IF m # <<>> THEN [results |-> res, current_device |-> m[1], emitted |-> <<>>]
       ELSE IF dev # <<>> /\ mi # <<>>
       THEN [results |-> DictSet(res, normalize_interface_name(mi[1]), dev),
             current_device |-> dev,
             emitted |-> <<[intf |-> normalize_interface_name(mi[1]), device |-> dev]>>]
       ELSE [results |-> res, current_device |-> dev, emitted |-> <<>>]

\* the body of the loop of lines 71-82 for one line: results and
\* current_device after it, and the entry it wrote, if any.  current_device
\* is <<>> while it is None or empty (both are false in `if current_device`)
CdpLine(line, res, dev) ==
    LET m == DeviceIdMatch(line)
        mi == InterfaceMatch(line)
    IN IF m # <<>> THEN [results |-> res, current_device |-> m[1], emitted |-> <<>>]
       ELSE IF dev # <<>> /\ mi # <<>>
       THEN [results |-> DictSet(res, normalize_interface_name(mi[1]), dev),
             current_device |-> <<>>,
             emitted |-> <<[intf |-> normalize_interface_name(mi[1]), device |-> dev]>>]
       ELSE [results |-> res, current_device |-> dev, emitted |-> <<>>]

\* the loop of lines 71-82
RECURSIVE CdpScan(_, _, _)
CdpScan(lines, res, dev) ==
    IF lines = <<>> THEN res
    ELSE LET after == CdpLine(Head(lines), res, dev)
         IN CdpScan(Tail(lines), after.results, after.current_device)

parse_cdp_neighbors_detail(output) == CdpScan(output, EmptyDict, <<>>)

(***************************************************************************)
(* Raw interface tokens the normalizer is applied to.                      *)
(***************************************************************************)

\* the most parts a slot path of a generated token has
MaxSlotParts == 2

SlotNumbers == {<<"0">>, <<"1">>, <<"3","8">>}

RECURSIVE SlotPaths(_)
SlotPaths(n) ==
    IF n = 0 THEN {}
    ELSE SlotNumbers \cup {p \o <<"/">> \o d : p \in SlotPaths(n - 1), d \in SlotNumbers}

\* abbreviated and long prefixes as the device prints them, one prefix
\* without a cue, and none
RawPrefixes ==
    { <<"G","i">>, <<"G","i","g">>, S_GigabitEthernet,
      <<"T","e">>, <<"T","e","n">>, S_TenGigabitEthernet,
      <<"F","a">>, <<"F","a","s","t">>, S_FastEthernet,
      <<"P","o","r","t","-","c","h","a","n","n","e","l">>, <<>> }

Pads == {<<>>, <<" ">>}

RawTokens ==
    {lead \o p \o sep \o n : lead \in Pads, p \in RawPrefixes, sep \in Pads,
                              n \in SlotPaths(MaxSlotParts) \cup {<<>>}}

(***************************************************************************)
(* parse_lldp_neighbors and DEVICE_POLICIES (lldp_renamer.py).  The output *)
(* is one string; its line breaks are "\n" characters.                     *)
(***************************************************************************)

\* str.split(sep)
RECURSIVE Split(_, _)
Split(s, sep) ==
    LET i == IndexOf(s, sep)
    IN IF i = 0 THEN <<s>>
       ELSE <<SubSeq(s, 1, i - 1)>> \o Split(SubSeq(s, i + Len(sep), Len(s)), sep)

\* str.splitlines()
RECURSIVE SplitLines(_)
SplitLines(s) ==
    LET i == IndexOf(s, <<"\n">>)
    IN IF s = <<>> THEN <<>>
       ELSE IF i = 0 THEN <<s>>
       ELSE <<SubSeq(s, 1, i - 1)>> \o SplitLines(SubSeq(s, i + 1, Len(s)))

\* a field value that is also put in canonical long form
NormalizedFieldValue(line, label) ==
    normalize_interface_name(Strip(Split(line, label)[2]))

\* line.split(label)[1].strip() for a line that starts with label
FieldValue(line, label) == Strip(Split(line, label)[2])

\* lines 35-41: the first non-empty stripped line after index i, else keep
RECURSIVE NextNonEmpty(_, _, _)
NextNonEmpty(lines, j, keep) ==
    IF j > Len(lines) THEN keep
    ELSE IF Strip(lines[j]) # <<>> THEN Strip(lines[j])
    ELSE NextNonEmpty(lines, j + 1, keep)

\* the while loop of lines 24-42 from index i on; local_intf is <<>> while
\* it is None or empty (both are false in `if local_intf`)
RECURSIVE ScanBlock(_, _, _)
ScanBlock(lines, i, rec) ==
    IF i > Len(lines) THEN rec
    ELSE LET line == Strip(lines[i])
         IN IF StartsWith(line, S_local_intf)
            THEN ScanBlock(lines, i + 1,
                           [rec EXCEPT !.local_intf = FieldValue(line, S_local_intf)])
            ELSE IF StartsWith(line, S_system_name)
            THEN ScanBlock(lines, i + 1,
                           [rec EXCEPT !.system_name = FieldValue(line, S_system_name)])
            ELSE IF StartsWith(line, S_system_description)
            THEN ScanBlock(lines, i + 1,
                           [rec EXCEPT !.system_description =
                                NextNonEmpty(lines, i + 1, rec.system_description)])
            ELSE ScanBlock(lines, i + 1, rec)

\* a block that yields a record only when it also has a description
ParseBlockNeedsDescription(block) ==
    LET lines == [k \in 1..Len(SplitLines(block)) |-> RStrip(SplitLines(block)[k])]
        rec == ScanBlock(lines, 1,
                   [local_intf |-> <<>>, system_name |-> <<>>, system_description |-> <<>>])
    IN IF rec.local_intf # <<>> /\ rec.system_description # <<>> THEN <<rec>> ELSE <<>>

\* lines 16-49 for one block: <<record>>, or <<>> when no local interface
ParseBlock(block) ==
    LET lines == [k \in 1..Len(SplitLines(block)) |-> RStrip(SplitLines(block)[k])]
        rec == ScanBlock(lines, 1,
                   [local_intf |-> <<>>, system_name |-> <<>>, system_description |-> <<>>])
    IN IF rec.local_intf # <<>> THEN <<rec>> ELSE <<>>

RECURSIVE ParseBlocks(_)
ParseBlocks(blocks) ==
    IF blocks = <<>> THEN <<>> ELSE ParseBlock(Head(blocks)) \o ParseBlocks(Tail(blocks))

parse_lldp_neighbors(output) == ParseBlocks(Split(output, S_block_separator))

(***************************************************************************)
(* parse_lldp_neighbors of ap_renamer1.py: no system name, and a record    *)
(* only for a block that has both a local interface and a description.     *)
(***************************************************************************)

\* the while loop of lines 19-35 of ap_renamer1.py from index i on
RECURSIVE ScanBlock1(_, _, _)
ScanBlock1(lines, i, rec) ==
    IF i > Len(lines) THEN rec
    ELSE LET line == Strip(lines[i])
         IN IF StartsWith(line, S_local_intf)
            THEN ScanBlock1(lines, i + 1,
                            [rec EXCEPT !.local_intf = FieldValue(line, S_local_intf)])
            ELSE IF StartsWith(line, S_system_description)
            THEN ScanBlock1(lines, i + 1,
                            [rec EXCEPT !.system_description =
                                 NextNonEmpty(lines, i + 1, rec.system_description)])
            ELSE ScanBlock1(lines, i + 1, rec)

\* lines 13-41 of ap_renamer1.py for one block
ParseBlock1(block) ==
    LET lines == [k \in 1..Len(SplitLines(block)) |-> RStrip(SplitLines(block)[k])]
        rec == ScanBlock1(lines, 1, [local_intf |-> <<>>, system_description |-> <<>>])
    IN IF rec.local_intf # <<>> /\ rec.system_description # <<>> THEN <<rec>> ELSE <<>>

RECURSIVE ParseBlocks1(_)
ParseBlocks1(blocks) ==
    IF blocks = <<>> THEN <<>> ELSE ParseBlock1(Head(blocks)) \o ParseBlocks1(Tail(blocks))

parse_lldp_neighbors1(text) == ParseBlocks1(Split(text, S_block_separator))

(***************************************************************************)
(* DEVICE_POLICIES of lldp_renamer.py.                                     *)
(***************************************************************************)

LeafConfig ==
    << <<"d","e","s","c","r","i","p","t","i","o","n"," ","c","o","n","f","i","g"," ","t",
        "o","o","l"," ","L","E","A","F","1">>,
       <<"s","w","i","t","c","h","p","o","r","t"," ","m","o","d","e"," ","a","c","c","e",
        "s","s">>,
       <<"s","w","i","t","c","h","p","o","r","t"," ","a","c","c","e","s","s"," ","v","l",
        "a","n"," ","1">>,
       <<"s","p","a","n","n","i","n","g","-","t","r","e","e"," ","p","o","r","t","f","a",
        "s","t">>,
       <<"s","p","a","n","n","i","n","g","-","t","r","e","e"," ","b","p","d","u","g","u",
        "a","r","d"," ","e","n","a","b","l","e">> >>
AccessPointConfig ==
    << <<"d","e","s","c","r","i","p","t","i","o","n"," ","A","r","i","s","t","a","_","A",
        "P","_","C","o","n","f","i","g","_","t","o","o","l">>,
       <<"s","w","i","t","c","h","p","o","r","t"," ","t","r","u","n","k"," ","a","l","l",
        "o","w","e","d"," ","v","l","a","n"," ","1",",","4","0","9","1">>,
       <<"s","w","i","t","c","h","p","o","r","t"," ","m","o","d","e"," ","t","r","u","n",
        "k">>,
       <<"p","o","w","e","r"," ","i","n","l","i","n","e"," ","a","u","t","o">>,
       <<"s","p","a","n","n","i","n","g","-","t","r","e","e"," ","p","o","r","t","f","a",
        "s","t"," ","t","r","u","n","k">>,
       <<"s","p","a","n","n","i","n","g","-","t","r","e","e"," ","b","p","d","u","g","u",
        "a","r","d"," ","e","n","a","b","l","e">> >>

\* lines 58-84; the two lambdas are "system_name_is" and
\* "system_description_has"
DEVICE_POLICIES ==
    << [name |-> "Arista Leaf Switch", match |-> "system_name_is",
        arg |-> S_LEAF1, config |-> LeafConfig],
       [name |-> "Arista Access Point", match |-> "system_description_has",
        arg |-> S_ARISTA_AP, config |-> AccessPointConfig] >>

\* policy["match"](n)
PolicyMatches(policy, n) ==
    IF policy.match = "system_name_is" THEN n.system_name = policy.arg
    ELSE Contains(n.system_description, policy.arg)

\* the inner loop without its break: every matching policy is applied
RECURSIVE AllMatchCommands(_, _)
AllMatchCommands(n, policies) ==
    IF policies = <<>> THEN <<>>
    ELSE (IF PolicyMatches(Head(policies), n)
          THEN <<S_interface \o n.local_intf>> \o Head(policies).config \o <<S_exit>>
          ELSE <<>>)
         \o AllMatchCommands(n, Tail(policies))

\* lines 126-138: what the inner loop adds to config_cmds for neighbor n
RECURSIVE FirstMatchCommands(_, _)
FirstMatchCommands(n, policies) ==
    IF policies = <<>> THEN <<>>
    ELSE IF PolicyMatches(Head(policies), n)
    THEN <<S_interface \o n.local_intf>> \o Head(policies).config \o <<S_exit>>
    ELSE FirstMatchCommands(n, Tail(policies))

(***************************************************************************)
(* What the operator types and what the device answers.                    *)
(***************************************************************************)

None == <<>>
Some(x) == <<x>>

\* answers as typed; the script reads each with input().strip().lower()
TypedAnswers == {<<"y">>, <<" ","Y"," ">>, <<"n">>, <<>>}

Answer(typed) == LowerStr(Strip(typed))

Yes == <<"y">>
No == <<"n">>

\* target addresses as typed; the script reads each with input().strip()
TypedTargets == {<<>>, <<" ">>, <<"1","0",".","0",".","0",".","1">>}

CredentialInputs ==
    {[username |-> "admin", password |-> "pw1"],
     [username |-> "netops", password |-> "pw2"]}

\* the ways ConnectHandler(**device) ends (lines 121-135)
ConnectResults ==
    {"ok", "NetmikoTimeoutException", "NetmikoAuthenticationException", "Exception"}

\* outputs of 'show power inline': no device line; two interfaces, one of
\* them a TenGigabit port; two devices on one interface and one interface
\* that sorts before it; a line whose first token is the text of the
\* unknown-interface sentinel, and one interface
PowerNone ==
    << <<"I","n","t","e","r","f","a","c","e"," ","A","d","m","i","n"," ","O","p","e","r",
         " ","D","e","v","i","c","e">>,
       <<"G","i","1","/","0","/","3"," ","a","u","t","o"," ","o","f","f"," ","n","/","a">> >>
PowerTwo ==
    << <<"G","i","1","/","0","/","1"," ","a","u","t","o"," ","o","n"," ",
         "A","I","R","-","A","P","1","8","1","5">>,
       <<"T","e","1","/","0","/","2"," "," ","a","u","t","o"," ","o","n"," ",
         "C","9","1","1","5","A","X","I">> >>
PowerShared ==
    << <<"G","i","1","/","0","/","2"," ","a","u","t","o"," ","o","n"," ",
         "A","I","R","-","A","P","1">>,
       <<"G","i","1","/","0","/","2"," ","a","u","t","o"," ","o","n"," ","c","9","1","2","0">>,
       <<" ","G","i","1","/","0","/","1"," ","a","u","t","o"," ","o","n"," ",
         "a","i","r","-","c","a","p","2">> >>

PowerUnknown ==
    << <<"<","u","n","k","n","o","w","n",">"," ","a","u","t","o"," ","o","n"," ","A","I",
        "R","-","A","P","9">>,
       <<"G","i","1","/","0","/","5"," ","a","u","t","o"," ","o","n"," ","C","9","1","3",
        "0","A","X","I">> >>

PowerOutputs == {PowerNone, PowerTwo, PowerShared, PowerUnknown}

\* outputs of 'show cdp neighbors detail': none; one block per port of
\* PowerTwo; a Device ID line that is replaced before its Interface line
CdpNone == <<>>
CdpTwo ==
    << <<"D","e","v","i","c","e"," ","I","D",":"," ","l","o","b","b","y","-","a","p">>,
       <<" "," ","I","n","t","e","r","f","a","c","e",":"," ","G","i","g","a","b","i","t",
         "E","t","h","e","r","n","e","t","1","/","0","/","1",","," "," ","P","o","r","t",
         " ","I","D"," ","(","o","u","t","g","o","i","n","g"," ","p","o","r","t",")",":",
         " ","G","i","0">>,
       <<"D","e","v","i","c","e"," ","I","D",":"," ","o","l","d","-","a","p">>,
       <<"d","e","v","i","c","e"," ","i","d",":"," ","r","o","o","f","-","a","p"," ">>,
       <<"I","n","t","e","r","f","a","c","e",":"," ","T","e","n","G","i","g","a","b","i","t",
         "E","t","h","e","r","n","e","t","1","/","0","/","2",","," ","P","o","r","t"," ",
         "I","D",":"," ","T","e","0">>,
       <<"I","n","t","e","r","f","a","c","e",":"," ","G","i","1","/","0","/","2",","," ",
         "P","o","r","t"," ","I","D",":"," ","G","i","0">> >>

CdpOutputs == {CdpNone, CdpTwo}

\* outputs of 'show lldp neighbors detail': no block with a local interface;
\* a block that matches both policies, one that matches the second and one
\* that matches none; a single block that matches none; two neighbors seen
\* on one interface, the first matching the first policy and the second the
\* second policy
LldpNone ==
    <<"T","o","t","a","l"," ","e","n","t","r","i","e","s"," ","d","i","s","p","l","a",
      "y","e","d",":"," ","0","\n">>
LldpMixed ==
    <<"-","-","-","-","-","-","-","-","-","-","-","-","-","-","-","-","-","-","-","-",
      "-","-","-","-","-","-","-","-","-","-","-","-","-","-","-","-","-","-","-","-",
      "-","-","-","-","-","-","-","-","\n","L","o","c","a","l"," ","I","n","t","f",
      ":"," ","G","i","1","/","0","/","2","4","\n","S","y","s","t","e","m"," ","N",
      "a","m","e",":"," ","L","E","A","F","1","\n","S","y","s","t","e","m"," ","D",
      "e","s","c","r","i","p","t","i","o","n",":","\n","A","R","I","S","T","A"," ",
      "A","P"," ","C","-","1","3","0","\n","-","-","-","-","-","-","-","-","-","-",
      "-","-","-","-","-","-","-","-","-","-","-","-","-","-","-","-","-","-","-","-",
      "-","-","-","-","-","-","-","-","-","-","-","-","-","-","-","-","-","-","\n",
      "L","o","c","a","l"," ","I","n","t","f",":"," ","G","i","1","/","0","/","2",
      "\n","S","y","s","t","e","m"," ","N","a","m","e",":"," ","A","P","-","R","O",
      "O","F","-","3","\n","\n","S","y","s","t","e","m"," ","D","e","s","c","r","i",
      "p","t","i","o","n",":"," ","\n","\n"," "," ","A","R","I","S","T","A"," ","A",
      "P"," ","C","-","1","3","0"," ","\n","-","-","-","-","-","-","-","-","-","-",
      "-","-","-","-","-","-","-","-","-","-","-","-","-","-","-","-","-","-","-","-",
      "-","-","-","-","-","-","-","-","-","-","-","-","-","-","-","-","-","-","\n",
      "L","o","c","a","l"," ","I","n","t","f",":"," ","G","i","1","/","0","/","3",
      "\n","S","y","s","t","e","m"," ","N","a","m","e",":"," ","p","r","i","n","t",
      "e","r","\n">>
LldpNoMatch ==
    <<"-","-","-","-","-","-","-","-","-","-","-","-","-","-","-","-","-","-","-","-",
      "-","-","-","-","-","-","-","-","-","-","-","-","-","-","-","-","-","-","-","-",
      "-","-","-","-","-","-","-","-","\n","L","o","c","a","l"," ","I","n","t","f",
      ":"," ","T","e","1","/","1","/","1","\n","S","y","s","t","e","m"," ","N","a",
      "m","e",":"," ","s","w","9","\n","S","y","s","t","e","m"," ","D","e","s","c",
      "r","i","p","t","i","o","n",":","\n","C","i","s","c","o"," ","I","O","S","\n">>

LldpShared ==
    <<"-","-","-","-","-","-","-","-","-","-","-","-","-","-","-","-","-","-","-","-",
      "-","-","-","-","-","-","-","-","-","-","-","-","-","-","-","-","-","-","-","-",
      "-","-","-","-","-","-","-","-","\n","L","o","c","a","l"," ","I","n","t","f",
      ":"," ","G","i","1","/","0","/","7","\n","S","y","s","t","e","m"," ","N","a",
      "m","e",":"," ","L","E","A","F","1","\n","-","-","-","-","-","-","-","-","-",
      "-","-","-","-","-","-","-","-","-","-","-","-","-","-","-","-","-","-","-","-",
      "-","-","-","-","-","-","-","-","-","-","-","-","-","-","-","-","-","-","-",
      "\n","L","o","c","a","l"," ","I","n","t","f",":"," ","G","i","1","/","0","/",
      "7","\n","S","y","s","t","e","m"," ","N","a","m","e",":"," ","A","P","-","7",
      "\n","S","y","s","t","e","m"," ","D","e","s","c","r","i","p","t","i","o","n",
      ":","\n","A","R","I","S","T","A"," ","A","P"," ","C","-","1","3","0","\n">>

LldpOutputs == {LldpNone, LldpMixed, LldpNoMatch, LldpShared}

\* what the operator types at the configuration-lines prompt: each a sequence
\* of typed lines; a sequence without a '.' line ends in EOFError
TypedConfigs ==
    { << <<".">> >>,
      << <<"s","h","u","t","d","o","w","n"," ">>, <<" ",".">> >>,
      << <<" ","p","o","w","e","r"," ","i","n","l","i","n","e"," ","a","u","t","o">>,
         <<"s","h","u","t","d","o","w","n">> >> }

\* the loop of lines 194-202 and 225-233
RECURSIVE ReadLines(_)
ReadLines(typed) ==
    IF typed = <<>> THEN <<>>
    ELSE IF Strip(Head(typed)) = S_dot THEN <<>>
    ELSE <<RStrip(Head(typed))>> \o ReadLines(Tail(typed))

\* the most target devices entered in one run
MaxDevices == 2

VARIABLES
    prog,             \* which script runs, or which function a harness applies
    pc,               \* position in the script
    raw,              \* normalize harness: the raw token
    once,             \* normalize harness: normalize(raw)
    twice,            \* normalize harness: normalize(normalize(raw))
    fields,           \* LLDP parser harness: the fields each block of the output holds
    lldp_output,      \* LLDP parser harness: the text handed to the parser
    records,          \* LLDP parser harness: the list the parser returned
    cdp_output,       \* CDP parser harness: the lines handed to the parser
    cdp_rest,         \* CDP parser harness: the lines the loop has still to read
    current_device,   \* parse_cdp_neighbors_detail: <<>> while None or empty
    results,          \* parse_cdp_neighbors_detail: the mapping built so far
    emissions,        \* CDP parser harness: the entries written so far, in order
    devices,          \* targets entered so far
    credentials,      \* ap_renamer main: None or Some([username, password])
    login,            \* username and password of this iteration's device dict
    prev_user_lines,  \* None or Some(lines)
    prev_do_default,  \* None or Some(BOOLEAN)
    prev_do_desc,     \* None or Some(BOOLEAN)
    ssh,              \* the session object: "none", "open", "closed"
    openSessions,     \* sessions opened and not yet closed
    closeCalls,       \* disconnect() calls of this device iteration
    commands,         \* show commands sent in this device iteration
    interfaces,       \* dict interface -> devices seen on it
    cdp_map,          \* dict interface -> hostname from the CDP detail
    user_lines,
    do_default,
    do_desc,
    save_cfg,         \* None until asked, then Some(answer)
    confirm,          \* None until asked, then Some(answer)
    again,            \* None until asked, then Some(answer)
    preview,          \* the planned changes printed, one group per interface
    todo,             \* the interfaces the apply loop has still to visit
    sent,             \* the batches handed to send_config_set, in order
    skipped,          \* the interfaces the apply loop reported as skipped
    leaving,          \* how control leaves the try block: "", "continue", "return", "raise", "end"
    outcome,          \* the path this device iteration took
    failures,         \* the device-session operations that failed in this iteration
    prevAtStart,      \* the persisted lines and toggles at the start of this iteration
    neighbors,        \* lldp_renamer main: the parsed neighbor records
    remaining,        \* lldp_renamer main: the neighbors the loop has still to visit
    config_cmds       \* lldp_renamer main: the commands collected so far

normalizing == <<raw, once, twice>>
lldpParsing == <<fields, lldp_output, records>>
cdpParsing == <<cdp_output, cdp_rest, current_device, results, emissions>>
harness == <<normalizing, lldpParsing, cdpParsing>>
sessionState == <<credentials, prev_user_lines, prev_do_default, prev_do_desc>>
persisted == <<prev_user_lines, prev_do_default, prev_do_desc>>
conn == <<ssh, openSessions, closeCalls>>
discovery == <<interfaces, cdp_map>>
config == <<user_lines, do_default, do_desc>>
answers == <<save_cfg, confirm, again>>
applying == <<preview, todo, sent, skipped>>
history == <<outcome, failures, prevAtStart, commands>>
lldp == <<neighbors, remaining, config_cmds>>

vars ==
    <<prog, pc, harness, devices, login, sessionState, conn, discovery, config,
      answers, applying, leaving, history, lldp>>

\* the values the variables of a device iteration hold before it assigns them
IterationFresh ==
    /\ login = None
    /\ commands = <<>>
    /\ interfaces = EmptyDict
    /\ cdp_map = EmptyDict
    /\ user_lines = <<>>
    /\ do_default = FALSE
    /\ do_desc = FALSE
    /\ save_cfg = None
    /\ confirm = None
    /\ again = None
    /\ preview = <<>>
    /\ todo = <<>>
    /\ sent = <<>>
    /\ skipped = <<>>
    /\ leaving = ""
    /\ outcome = ""
    /\ failures = {}
    /\ closeCalls = 0

\* the same, as the assignment that starts a device iteration
StartIteration ==
    /\ login' = None
    /\ commands' = <<>>
    /\ interfaces' = EmptyDict
    /\ cdp_map' = EmptyDict
    /\ user_lines' = <<>>
    /\ do_default' = FALSE
    /\ do_desc' = FALSE
    /\ save_cfg' = None
    /\ confirm' = None
    /\ again' = None
    /\ preview' = <<>>
    /\ todo' = <<>>
    /\ sent' = <<>>
    /\ skipped' = <<>>
    /\ leaving' = ""
    /\ outcome' = ""
    /\ failures' = {}
    /\ closeCalls' = 0

OrchestratorIdle ==
    /\ devices = 0
    /\ credentials = None
    /\ prev_user_lines = None
    /\ prev_do_default = None
    /\ prev_do_desc = None
    /\ prevAtStart = <<None, None, None>>
    /\ ssh = "none"
    /\ openSessions = 0
    /\ IterationFresh

NormalizeIdle == raw = <<>> /\ once = <<>> /\ twice = <<>>

LldpParseIdle == fields = <<>> /\ lldp_output = <<>> /\ records = <<>>

CdpParseIdle ==
    /\ cdp_output = <<>>
    /\ cdp_rest = <<>>
    /\ current_device = <<>>
    /\ results = EmptyDict
    /\ emissions = <<>>

HarnessIdle == NormalizeIdle /\ LldpParseIdle /\ CdpParseIdle

LldpIdle == neighbors = <<>> /\ remaining = <<>> /\ config_cmds = <<>>

(***************************************************************************)
(* main of ap_renamer.py: the interactive orchestrator.                    *)
(***************************************************************************)

\* ssh.disconnect(): closes the session if it is open, and counts the call
Disconnect ==
    /\ ssh' = "closed"
    /\ openSessions' = IF ssh = "open" THEN openSessions - 1 ELSE openSessions
    /\ closeCalls' = closeCalls + 1

\* a path that leaves the device without the ssh.disconnect() of lines 144,
\* 173, 209, 240 and 276
SkipDisconnectBeforePrompt == UNCHANGED conn

\* the ssh.disconnect() that precedes each "Configure another switch?" prompt
\* inside the try block (lines 144, 173, 209, 240, 276)
DisconnectBeforePrompt == Disconnect

\* a finally clause that does not disconnect
FinallySkipsDisconnect == UNCHANGED conn

\* the finally clause (lines 309-313); an exception of disconnect is swallowed
FinallyDisconnect == Disconnect

\* the early exits of the try block: disconnect, then ask (lines 144-145,
\* 173-174, 209-210, 240-241, 276-277)
LeaveDevice(path) ==
    /\ DisconnectBeforePrompt
    /\ outcome' = path
    /\ pc' = "AskAgainInTry"

\* line 94-97: the next switch, or a blank line to exit.  A new device
\* iteration starts with its locals unassigned: every one of them is
\* assigned again before it is read.
PromptTarget ==
    /\ prog = "ap_renamer"
    /\ pc = "AwaitTarget"
    /\ \E typed \in TypedTargets :
          IF Strip(typed) = <<>>
          THEN /\ pc' = "Exit"
               /\ UNCHANGED <<devices, login, conn, discovery, config, answers,
                              applying, leaving, history>>
          ELSE /\ devices < MaxDevices
               /\ devices' = devices + 1
               /\ pc' = IF credentials = None THEN "EnterCredentials" ELSE "AskUseCredentials"
               /\ StartIteration
               /\ prevAtStart' = persisted
               /\ UNCHANGED <<ssh, openSessions>>
    /\ UNCHANGED <<prog, harness, lldp, sessionState>>

\* lines 105-112: reuse the stored credentials unless the answer is 'n'
AskUseCredentials ==
    /\ prog = "ap_renamer"
    /\ pc = "AskUseCredentials"
    /\ \E typed \in TypedAnswers :
          IF Answer(typed) = No
          THEN pc' = "EnterCredentials" /\ UNCHANGED login
          ELSE pc' = "Connect" /\ login' = credentials
    /\ UNCHANGED <<prog, harness, lldp, devices, sessionState, conn, discovery, config,
                   answers, applying, leaving, history>>

\* lines 101-103 and 107-109: the credentials typed are stored at once
EnterCredentials ==
    /\ prog = "ap_renamer"
    /\ pc = "EnterCredentials"
    /\ \E c \in CredentialInputs :
          /\ credentials' = Some(c)
          /\ login' = Some(c)
    /\ pc' = "Connect"
    /\ UNCHANGED <<prog, harness, lldp, devices, persisted, conn, discovery, config,
                   answers, applying, leaving, history>>

\* where a failed ConnectHandler leads, were it not caught
ConnectFailureAborts == "Crashed"

\* where a failed ConnectHandler leads: both except clauses (lines 123-135)
\* print the error and ask whether to try another switch
ConnectFailurePc == "TryAnother"

\* lines 121-135: ssh = ConnectHandler(**device)
Connect ==
    /\ prog = "ap_renamer"
    /\ pc = "Connect"
    /\ \E r \in ConnectResults :
          IF r = "ok"
          THEN /\ ssh' = "open"
               /\ openSessions' = openSessions + 1
               /\ pc' = "ShowPowerInline"
               /\ UNCHANGED <<outcome, failures>>
          ELSE /\ pc' = ConnectFailurePc
               /\ outcome' = "connect_failed"
               /\ failures' = failures \cup {"open"}
               /\ UNCHANGED <<ssh, openSessions>>
    /\ UNCHANGED <<prog, harness, lldp, devices, login, sessionState, closeCalls,
                   discovery, config, answers, applying, leaving, prevAtStart,
                   commands>>

\* lines 126-129 and 132-135: "Try another switch? [y/N]"
TryAnother ==
    /\ prog = "ap_renamer"
    /\ pc = "TryAnother"
    /\ \E typed \in TypedAnswers :
          /\ again' = Some(Answer(typed))
          /\ pc' = IF Answer(typed) = Yes THEN "AwaitTarget" ELSE "Exit"
    /\ UNCHANGED <<prog, harness, lldp, devices, login, sessionState, conn, discovery,
                   config, save_cfg, confirm, applying, leaving, history>>

\* lines 138-153: the primary discovery command.  A failure of send_command
\* is caught by no except clause: it leaves the try block as an exception.
ShowPowerInline ==
    /\ prog = "ap_renamer"
    /\ pc = "ShowPowerInline"
    /\ commands' = Append(commands, "show power inline")
    /\ \/ /\ failures' = failures \cup {"primary"}
          /\ outcome' = "discovery_failed"
          /\ leaving' = "raise"
          /\ pc' = "Finally"
          /\ UNCHANGED <<conn, interfaces>>
       \/ \E output \in PowerOutputs :
             LET aps == find_aps_in_cdp(output)
             IN IF aps = <<>>
                THEN /\ LeaveDevice("no_neighbours")
                     /\ UNCHANGED <<interfaces, failures, leaving>>
                ELSE /\ interfaces' = GroupByInterface(aps)
                     /\ pc' = "ShowCdpDetail"
                     /\ UNCHANGED <<conn, outcome, failures, leaving>>
    /\ UNCHANGED <<prog, harness, lldp, devices, login, sessionState, cdp_map, config,
                   answers, applying, prevAtStart>>

\* where a failed detail command leads, were it to leave the try block
DetailFailureLeaves == "Finally"

\* lines 159-160: except Exception swallows the failure and the script goes
\* on to the report and the prompt of line 170
DetailFailurePc == "AskConfigure"

\* lines 155-167: the secondary discovery command; any failure gives {}
ShowCdpDetail ==
    /\ prog = "ap_renamer"
    /\ pc = "ShowCdpDetail"
    /\ commands' = Append(commands, "show cdp neighbors detail")
    /\ \/ /\ failures' = failures \cup {"detail"}
          /\ cdp_map' = EmptyDict
          /\ pc' = DetailFailurePc
       \/ \E output \in CdpOutputs :
             /\ cdp_map' = parse_cdp_neighbors_detail(output)
             /\ pc' = "AskConfigure"
             /\ UNCHANGED failures
    /\ UNCHANGED <<prog, harness, lldp, devices, login, sessionState, conn, interfaces,
                   config, answers, applying, leaving, outcome, prevAtStart>>

\* lines 170-180 and 217: "Configure these interfaces? [y/N]"
AskConfigure ==
    /\ prog = "ap_renamer"
    /\ pc = "AskConfigure"
    /\ \E typed \in TypedAnswers :
          IF Answer(typed) # Yes
          THEN LeaveDevice("declined")
          ELSE /\ pc' = IF prev_user_lines # None THEN "AskReuse" ELSE "AskDescription"
               /\ UNCHANGED <<conn, outcome>>
    /\ UNCHANGED <<prog, harness, lldp, devices, login, sessionState, discovery,
                   config, answers, applying, leaving, failures, prevAtStart, commands>>

\* lines 181-190: "Reuse previous configuration lines? [Y/n]"
AskReuse ==
    /\ prog = "ap_renamer"
    /\ pc = "AskReuse"
    /\ \E typed \in TypedAnswers :
          IF Answer(typed) # No
          THEN /\ user_lines' = prev_user_lines[1]
               /\ do_default' = prev_do_default[1]
               /\ do_desc' = IF prev_do_desc # None THEN prev_do_desc[1] ELSE FALSE
               /\ pc' = "AskSave"
          ELSE /\ pc' = "AskDescription"
               /\ UNCHANGED config
    /\ UNCHANGED <<prog, harness, lldp, devices, login, sessionState, conn, discovery,
                   answers, applying, leaving, history>>

\* lines 189-190 and 220-221: "Apply CDP neighbor name as interface
\* description? [Y/n]"
AskDescription ==
    /\ prog = "ap_renamer"
    /\ pc = "AskDescription"
    /\ \E typed \in TypedAnswers : do_desc' = (Answer(typed) # No)
    /\ pc' = "ReadConfigLines"
    /\ UNCHANGED <<prog, harness, lldp, devices, login, sessionState, conn, discovery,
                   user_lines, do_default, answers, applying, leaving, history>>

\* a script that goes on with no lines and no description
NeverNothingToDo(lines) == FALSE

\* lines 204-208 and 235-239: no configuration lines and do_desc off
NothingToDo(lines) == lines = <<>> /\ ~do_desc

\* lines 192-213 and 223-244: the configuration lines, and the exit when
\* there is nothing to do
ReadConfigLines ==
    /\ prog = "ap_renamer"
    /\ pc = "ReadConfigLines"
    /\ \E typed \in TypedConfigs :
          /\ user_lines' = ReadLines(typed)
          /\ IF NothingToDo(ReadLines(typed))
             THEN LeaveDevice("nothing_to_do")
             ELSE /\ pc' = "AskDefault"
                  /\ UNCHANGED <<conn, outcome>>
    /\ UNCHANGED <<prog, harness, lldp, devices, login, sessionState, discovery,
                   do_default, do_desc, answers, applying, leaving, failures,
                   prevAtStart, commands>>

\* lines 215-216 and 246-247: "Default interfaces before applying config? [y/N]"
AskDefault ==
    /\ prog = "ap_renamer"
    /\ pc = "AskDefault"
    /\ \E typed \in TypedAnswers : do_default' = (Answer(typed) = Yes)
    /\ pc' = "AskSave"
    /\ UNCHANGED <<prog, harness, lldp, devices, login, sessionState, conn, discovery,
                   user_lines, do_desc, answers, applying, leaving, history>>

\* a resolution that takes the summary-scan identity even when the detail
\* mapping has a hostname
SummaryFirstDescription(intf) ==
    IF intf \in DOMAIN interfaces THEN interfaces[intf][1] ELSE <<>>

\* desc = cdp_map.get(intf) or (interfaces.get(intf, [None])[0]); <<>> when
\* it is None or empty (lines 267 and 296)
ResolveDescription(intf) ==
    LET hostname == IF intf \in DOMAIN cdp_map THEN cdp_map[intf] ELSE <<>>
    IN IF hostname # <<>> THEN hostname
       ELSE IF intf \in DOMAIN interfaces THEN interfaces[intf][1]
       ELSE <<>>

\* a test that takes no interface for the sentinel
NeverSentinel(intf) == FALSE

\* lines 259 and 284: intf == '<unknown>'
IsSentinel(intf) == intf = S_unknown

\* what lines 259-271 print for one interface
PreviewLines(intf) ==
    IF IsSentinel(intf) THEN <<S_skipping>>
    ELSE (IF do_default THEN <<S_indent2 \o S_default_interface \o intf>> ELSE <<>>)
         \o <<S_indent2 \o S_interface \o intf>>
         \o (IF do_desc /\ ResolveDescription(intf) # <<>>
             THEN <<S_indent4 \o S_description \o ResolveDescription(intf)>>
             ELSE <<>>)
         \o [i \in 1..Len(user_lines) |-> S_indent4 \o user_lines[i]]

\* lines 257-271: the planned changes, sorted by interface
PlannedChanges ==
    LET order == Sorted(DOMAIN interfaces)
    IN [i \in 1..Len(order) |-> [intf |-> order[i], lines |-> PreviewLines(order[i])]]

\* a batch that never starts with the default command
BuildCommandsWithoutDefault(intf) ==
    <<S_interface \o intf>>
    \o (IF do_desc /\ ResolveDescription(intf) # <<>>
        THEN <<S_description \o ResolveDescription(intf)>>
        ELSE <<>>)
    \o user_lines

\* cfg_commands of lines 290-299
BuildCommands(intf) ==
    (IF do_default THEN <<S_default_interface \o intf>> ELSE <<>>)
    \o <<S_interface \o intf>>
    \o (IF do_desc /\ ResolveDescription(intf) # <<>>
        THEN <<S_description \o ResolveDescription(intf)>>
        ELSE <<>>)
    \o user_lines

\* a save that stores the lines and leaves the two toggles as they were
SaveLinesOnly(answer) ==
    IF answer = Yes
    THEN /\ prev_user_lines' = Some(user_lines)
         /\ UNCHANGED <<prev_do_default, prev_do_desc>>
    ELSE UNCHANGED persisted

\* the lines and toggles stored whatever the answer
SaveWithoutAsking(answer) ==
    /\ prev_user_lines' = Some(user_lines)
    /\ prev_do_default' = Some(do_default)
    /\ prev_do_desc' = Some(do_desc)

\* lines 251-254: the lines and toggles are stored when the answer is 'y'
SaveForReuse(answer) ==
    IF answer = Yes
    THEN /\ prev_user_lines' = Some(user_lines)
         /\ prev_do_default' = Some(do_default)
         /\ prev_do_desc' = Some(do_desc)
    ELSE UNCHANGED persisted

\* lines 249-271: "Save these configuration lines for reuse on next
\* switches? [y/N]", then the planned changes are printed
AskSave ==
    /\ prog = "ap_renamer"
    /\ pc = "AskSave"
    /\ \E typed \in TypedAnswers :
          /\ save_cfg' = Some(Answer(typed))
          /\ SaveForReuse(Answer(typed))
    /\ preview' = PlannedChanges
    /\ pc' = "Confirm"
    /\ UNCHANGED <<prog, harness, lldp, devices, login, credentials, conn, discovery,
                   config, confirm, again, todo, sent, skipped, leaving, history>>

\* a confirmation that takes every answer but 'n' for a yes
ConfirmedUnlessNo(answer) == answer # No

\* line 274: only 'y' confirms
Confirmed(answer) == answer = Yes

\* lines 273-283: "Proceed with applying these changes? [y/N]"
Confirm ==
    /\ prog = "ap_renamer"
    /\ pc = "Confirm"
    /\ \E typed \in TypedAnswers :
          /\ confirm' = Some(Answer(typed))
          /\ IF Confirmed(Answer(typed))
             THEN /\ todo' = Sorted(DOMAIN interfaces)
                  /\ pc' = "Applying"
                  /\ UNCHANGED <<conn, outcome>>
             ELSE /\ LeaveDevice("cancelled")
                  /\ UNCHANGED todo
    /\ UNCHANGED <<prog, harness, lldp, devices, login, sessionState, discovery,
                   config, save_cfg, again, preview, sent, skipped, leaving, failures,
                   prevAtStart, commands>>

\* a failed batch that ends the loop
RestAfterBatchAbortOnError(ok) == IF ok THEN Tail(todo) ELSE <<>>

\* lines 303-306: a failed batch is reported and the loop goes on
RestAfterBatch(ok) == Tail(todo)

\* lines 283-308: one round of the apply loop; after the last one
\* "Configuration complete." is printed and the try block ends
ApplyInterface ==
    /\ prog = "ap_renamer"
    /\ pc = "Applying"
    /\ todo # <<>>
    /\ \E ok \in BOOLEAN :
          /\ IF IsSentinel(Head(todo))
             THEN /\ ok
                  /\ skipped' = Append(skipped, Head(todo))
                  /\ UNCHANGED <<sent, failures>>
             ELSE /\ sent' = Append(sent, [intf |-> Head(todo),
                                           commands |-> BuildCommands(Head(todo)),
                                           ok |-> ok])
                  /\ failures' = IF ok THEN failures ELSE failures \cup {"batch"}
                  /\ UNCHANGED skipped
          /\ todo' = RestAfterBatch(ok)
          /\ IF RestAfterBatch(ok) = <<>>
             THEN pc' = "Finally" /\ leaving' = "end" /\ outcome' = "applied"
             ELSE UNCHANGED <<pc, leaving, outcome>>
    /\ UNCHANGED <<prog, harness, lldp, devices, login, sessionState, conn, discovery,
                   config, answers, preview, prevAtStart, commands>>

\* lines 145-148, 174-177, 210-213, 241-244, 277-280: "Configure another
\* switch? [y/N]" inside the try block; continue and return both run the
\* finally clause first
AskAgainInTry ==
    /\ prog = "ap_renamer"
    /\ pc = "AskAgainInTry"
    /\ \E typed \in TypedAnswers :
          /\ again' = Some(Answer(typed))
          /\ leaving' = IF Answer(typed) = Yes THEN "continue" ELSE "return"
    /\ pc' = "Finally"
    /\ UNCHANGED <<prog, harness, lldp, devices, login, sessionState, conn, discovery,
                   config, save_cfg, confirm, applying, history>>

\* lines 309-313: the finally clause, then where control was going: the next
\* iteration, out of main, the prompt of line 316, or out of main with the
\* exception that no except clause caught
Finally ==
    /\ prog = "ap_renamer"
    /\ pc = "Finally"
    /\ FinallyDisconnect
    /\ pc' = CASE leaving = "continue" -> "AwaitTarget"
               [] leaving = "return" -> "Exit"
               [] leaving = "raise" -> "Crashed"
               [] OTHER -> "AskAgain"
    /\ UNCHANGED <<prog, harness, lldp, devices, login, sessionState, discovery,
                   config, answers, applying, leaving, history>>

\* lines 315-319: "Configure another switch? [y/N]" after the try block
AskAgain ==
    /\ prog = "ap_renamer"
    /\ pc = "AskAgain"
    /\ \E typed \in TypedAnswers :
          /\ again' = Some(Answer(typed))
          /\ pc' = IF Answer(typed) = Yes THEN "AwaitTarget" ELSE "Exit"
    /\ UNCHANGED <<prog, harness, lldp, devices, login, sessionState, conn, discovery,
                   config, save_cfg, confirm, applying, leaving, history>>

InitApRenamer ==
    /\ prog = "ap_renamer"
    /\ pc = "AwaitTarget"
    /\ HarnessIdle
    /\ LldpIdle
    /\ OrchestratorIdle

NextApRenamer ==
    \/ PromptTarget
    \/ AskUseCredentials
    \/ EnterCredentials
    \/ Connect
    \/ TryAnother
    \/ ShowPowerInline
    \/ ShowCdpDetail
    \/ AskConfigure
    \/ AskReuse
    \/ AskDescription
    \/ ReadConfigLines
    \/ AskDefault
    \/ AskSave
    \/ Confirm
    \/ ApplyInterface
    \/ AskAgainInTry
    \/ Finally
    \/ AskAgain

(***************************************************************************)
(* main of lldp_renamer.py: the policy-driven flow, one device per run.    *)
(***************************************************************************)

\* lines 92-105: a blank address exits; else the credentials are read
LldpPromptTarget ==
    /\ prog = "lldp_renamer"
    /\ pc = "AwaitTarget"
    /\ \E typed \in TypedTargets :
          IF Strip(typed) = <<>>
          THEN pc' = "Exit" /\ UNCHANGED <<devices, login>>
          ELSE /\ pc' = "Connect"
               /\ devices' = devices + 1
               /\ \E c \in CredentialInputs : login' = Some(c)
    /\ UNCHANGED <<prog, harness, lldp, sessionState, conn, discovery, config, answers,
                   applying, leaving, history>>

\* lines 107-108: conn = ConnectHandler(**device); nothing catches a failure
LldpConnect ==
    /\ prog = "lldp_renamer"
    /\ pc = "Connect"
    /\ \E r \in ConnectResults :
          IF r = "ok"
          THEN /\ ssh' = "open"
               /\ openSessions' = openSessions + 1
               /\ pc' = "Collect"
               /\ UNCHANGED <<outcome, failures>>
          ELSE /\ pc' = "Crashed"
               /\ outcome' = "connect_failed"
               /\ failures' = failures \cup {"open"}
               /\ UNCHANGED <<ssh, openSessions>>
    /\ UNCHANGED <<prog, harness, lldp, devices, login, sessionState, closeCalls,
                   discovery, config, answers, applying, leaving, prevAtStart, commands>>

\* lines 110-123: 'show lldp neighbors detail' and its parse
LldpCollect ==
    /\ prog = "lldp_renamer"
    /\ pc = "Collect"
    /\ commands' = Append(commands, "show lldp neighbors detail")
    /\ \/ /\ failures' = failures \cup {"primary"}
          /\ outcome' = "discovery_failed"
          /\ pc' = "Crashed"
          /\ UNCHANGED <<conn, lldp>>
       \/ \E output \in LldpOutputs :
             /\ neighbors' = parse_lldp_neighbors(output)
             /\ remaining' = parse_lldp_neighbors(output)
             /\ config_cmds' = <<>>
             /\ IF parse_lldp_neighbors(output) = <<>>
                THEN Disconnect /\ outcome' = "no_neighbours" /\ pc' = "Exit"
                ELSE pc' = "Match" /\ UNCHANGED <<conn, outcome>>
             /\ UNCHANGED failures
    /\ UNCHANGED <<prog, harness, devices, login, sessionState, discovery, config,
                   answers, applying, leaving, prevAtStart>>

\* lines 125-138: one round of the loop over the neighbors
LldpMatchNeighbor ==
    /\ prog = "lldp_renamer"
    /\ pc = "Match"
    /\ remaining # <<>>
    /\ config_cmds' = config_cmds \o FirstMatchCommands(Head(remaining), DEVICE_POLICIES)
    /\ remaining' = Tail(remaining)
    /\ pc' = IF Tail(remaining) = <<>> THEN "Apply" ELSE "Match"
    /\ UNCHANGED <<prog, harness, neighbors, devices, login, sessionState, conn,
                   discovery, config, answers, applying, leaving, history>>

\* the ways lines 146-148 end: send_config_set and save_config succeed, or
\* one of them raises
LldpApplyResults == {"ok", "send_config_set", "save_config"}

\* lines 140-150: nothing to apply, or one batch for all the interfaces,
\* sent as soon as it is built
LldpApply ==
    /\ prog = "lldp_renamer"
    /\ pc = "Apply"
    /\ IF config_cmds = <<>>
       THEN /\ Disconnect
            /\ outcome' = "no_match"
            /\ pc' = "Exit"
            /\ UNCHANGED <<sent, failures>>
       ELSE \E r \in LldpApplyResults :
               /\ sent' = Append(sent, [intf |-> <<>>, commands |-> config_cmds,
                                        ok |-> r # "send_config_set"])
               /\ IF r = "ok"
                  THEN Disconnect /\ outcome' = "applied" /\ pc' = "Exit"
                       /\ UNCHANGED failures
                  ELSE /\ failures' = failures \cup {IF r = "save_config" THEN "save" ELSE "batch"}
                       /\ outcome' = "apply_failed"
                       /\ pc' = "Crashed"
                       /\ UNCHANGED conn
    /\ UNCHANGED <<prog, harness, lldp, devices, login, sessionState, discovery, config,
                   answers, preview, todo, skipped, leaving, prevAtStart, commands>>

InitLldpRenamer ==
    /\ prog = "lldp_renamer"
    /\ pc = "AwaitTarget"
    /\ HarnessIdle
    /\ LldpIdle
    /\ OrchestratorIdle

NextLldpRenamer ==
    \/ LldpPromptTarget
    \/ LldpConnect
    \/ LldpCollect
    \/ LldpMatchNeighbor
    \/ LldpApply

(***************************************************************************)
(* The two scripts.                                                        *)
(***************************************************************************)

Init == InitApRenamer \/ InitLldpRenamer

Next == NextApRenamer \/ NextLldpRenamer

Spec == Init /\ [][Next]_vars

(***************************************************************************)
(* Properties of the orchestrator and of the policy-driven flow.           *)
(***************************************************************************)

\* a device iteration of the orchestrator that opened a session has ended
IterationEnded ==
    /\ prog = "ap_renamer"
    /\ pc \in {"AwaitTarget", "Exit", "Crashed"}
    /\ outcome \notin {"", "connect_failed"}

\* C1 as claimed: in the orchestrator, every device iteration that opened a
\* session has called disconnect on it exactly once by the time it ends,
\* whatever the exit path.
C1_ClosedExactlyOnce == IterationEnded => closeCalls = 1

\* C1 as amended: by the time the iteration ends disconnect has been called
\* exactly once when the apply loop ran (with or without failed batches) or
\* the discovery command failed, and exactly twice (before the prompt and
\* again in the finally clause) on the no-neighbours, decline, nothing-to-do
\* and cancel paths; the session is closed in every case.
C1_ClosedOnceOrTwice ==
    IterationEnded =>
        /\ ssh = "closed"
        /\ closeCalls = IF outcome \in {"applied", "discovery_failed"} THEN 1 ELSE 2

C1_Witness ==
    /\ IterationEnded
    /\ outcome = "applied"
    /\ "batch" \in failures
    /\ closeCalls = 1

NonSentinel(seq) == SelectSeq(seq, LAMBDA k : k # S_unknown)

SentInterfaces == [i \in 1..Len(sent) |-> sent[i].intf]

\* C2: during Applying in the orchestrator, whichever batches fail, the
\* batch of every non-sentinel interface of the plan is sent, in sorted
\* order: the batches sent so far and the interfaces still to visit always
\* make up the whole plan, and when the loop ends every batch has been sent.
C2_FailureIsolation ==
    (prog = "ap_renamer" /\ (pc = "Applying" \/ outcome = "applied")) =>
        /\ SentInterfaces \o NonSentinel(todo) = NonSentinel(Sorted(DOMAIN interfaces))
        /\ outcome = "applied" => todo = <<>>

C2_Witness ==
    /\ prog = "ap_renamer"
    /\ outcome = "applied"
    /\ Len(sent) >= 2
    /\ ~sent[1].ok

\* C3: at most one session is open at any time, and at every prompt that
\* asks for the next target or whether to go on to another one the session
\* of the current device iteration is closed.
C3_SessionClosedBeforeNextTarget ==
    /\ openSessions <= 1
    /\ pc \in {"AwaitTarget", "TryAnother", "AskAgainInTry", "AskAgain"} =>
           (openSessions = 0 /\ ssh # "open")

C3_Witness ==
    /\ pc = "AskAgain"
    /\ "batch" \in failures
    /\ "detail" \in failures
    /\ ssh = "closed"

\* C4 as claimed: no configuration batch is sent to a device unless the
\* planned commands were rendered and the confirmation was then answered
\* 'y'; any other answer cancels with no batch sent.
C4_NoBatchWithoutConfirmation ==
    /\ sent # <<>> => (preview # <<>> /\ confirm = Some(Yes))
    /\ outcome = "cancelled" => sent = <<>>

\* C4 as amended: the same, of the interactive orchestrator only; there the
\* confirmation is asked after the plan was rendered, a batch is sent only
\* after the answer 'y', and any other answer cancels with no batch sent.
C4_OrchestratorNoBatchWithoutConfirmation ==
    prog = "ap_renamer" =>
        /\ confirm # None => preview # <<>>
        /\ sent # <<>> => (preview # <<>> /\ confirm = Some(Yes))
        /\ (confirm # None /\ confirm # Some(Yes)) => (outcome = "cancelled" /\ sent = <<>>)

C4_Witness ==
    /\ prog = "ap_renamer"
    /\ sent # <<>>
    /\ confirm = Some(Yes)
    /\ preview # <<>>

\* C5: no failure of a device-session operation ends the run of the
\* orchestrator: after such a failure the run is never left through an
\* uncaught exception.
C5_NoFailureIsFatal ==
    (prog = "ap_renamer" /\ failures # {}) => pc # "Crashed"

\* C6: when opening the session fails, the orchestrator asks whether to try
\* another target, no discovery or configuration command has been or is then
\* issued for that target, and the answer 'y' leads back to AwaitTarget
\* while any other answer ends the run.
C6_ConnectFailureAsksForAnotherTarget ==
    [][prog = "ap_renamer" =>
          /\ (pc = "Connect" /\ "open" \in failures') => pc' = "TryAnother"
          /\ pc = "TryAnother" =>
                /\ commands = <<>> /\ sent = <<>> /\ openSessions = 0
                /\ commands' = <<>> /\ sent' = <<>> /\ openSessions' = 0
                /\ pc' \in {"TryAnother", "AwaitTarget", "Exit"}
                /\ pc' = "AwaitTarget" => again' = Some(Yes)
                /\ pc' = "Exit" => (again' # None /\ again' # Some(Yes))]_vars

C6_Witness ==
    /\ prog = "ap_renamer"
    /\ pc = "AwaitTarget"
    /\ outcome = "connect_failed"
    /\ again = Some(Yes)

\* C7 as claimed: SessionState (credentials, lines, toggles) changes only in
\* a step in which the user confirms saving for reuse.
C7_StateChangesOnlyOnSave ==
    [][sessionState' # sessionState => (pc = "AskSave" /\ save_cfg' = Some(Yes))]_vars

\* C7 as amended: the persisted lines and toggles change only in the step
\* that answers the save prompt with 'y'; the stored credentials change only
\* in the step that reads typed credentials, which stores them at once with
\* no confirmation, and no later step (a failed connection included) undoes
\* it.
C7_LinesOnlyOnSaveCredentialsOnEntry ==
    [][/\ persisted' # persisted => (pc = "AskSave" /\ save_cfg' = Some(Yes))
       /\ credentials' # credentials => pc = "EnterCredentials"
       /\ (prog = "ap_renamer" /\ pc = "EnterCredentials") =>
              (credentials' # None /\ credentials' = login')]_vars

C7_Witness ==
    /\ pc = "TryAnother"
    /\ devices = 2
    /\ credentials # None
    /\ credentials = login
    /\ prev_user_lines # None

\* C8 as claimed: a device iteration that ends without a completed apply
\* (cancelled at the final confirmation, or left earlier) offers at the next
\* device the lines and toggles it was offered at its start.
C8_PersistedOnlyAfterApply ==
    (IterationEnded /\ outcome # "applied") => persisted = prevAtStart

\* C8 as amended: the lines and toggles change at the save prompt, which
\* comes before the preview and the final confirmation: as long as the save
\* prompt of an iteration has not been answered 'y' they are those of the
\* start of the iteration; once it has, they are the lines and toggles of
\* this iteration, also when the iteration then ends in Cancelled.
C8_PersistedChangesAtSavePrompt ==
    prog = "ap_renamer" =>
        /\ save_cfg # Some(Yes) => persisted = prevAtStart
        /\ save_cfg = Some(Yes) =>
               persisted = <<Some(user_lines), Some(do_default), Some(do_desc)>>

C8_Witness ==
    /\ IterationEnded
    /\ outcome = "cancelled"
    /\ save_cfg = Some(Yes)
    /\ persisted # prevAtStart

\* the indices of the policies that match neighbor n
MatchingPolicies(n) ==
    {i \in 1..Len(DEVICE_POLICIES) : PolicyMatches(DEVICE_POLICIES[i], n)}

\* C10: for every neighbor, when policy i matches and no earlier policy
\* does, the loop adds exactly `interface <local_intf>`, the config lines of
\* policy i and `exit`, whether or not later policies match; when no policy
\* matches it adds nothing.
C10_FirstMatchWins ==
    [][(prog = "lldp_renamer" /\ pc = "Match") =>
          LET n == Head(remaining)
              M == MatchingPolicies(n)
              first == CHOOSE i \in M : \A j \in M : i <= j
          IN config_cmds' =
                 IF M = {} THEN config_cmds
                 ELSE config_cmds \o <<S_interface \o n.local_intf>>
                      \o DEVICE_POLICIES[first].config \o <<S_exit>>]_vars

C10_Witness ==
    /\ prog = "lldp_renamer"
    /\ pc \in {"Match", "Apply"}
    /\ \E k \in 1..(Len(neighbors) - Len(remaining)) :
           Cardinality(MatchingPolicies(neighbors[k])) = 2
    /\ config_cmds # <<>>

\* the commands that would target the unknown-interface sentinel
SentinelCommands == {S_interface \o S_unknown, S_default_interface \o S_unknown}

\* C12: no group of the preview and no batch sent targets the sentinel
\* '<unknown>': in the preview its group is the skip notice alone, and the
\* apply loop sends no batch for it and reports it as skipped instead.
C12_SentinelExcluded ==
    prog = "ap_renamer" =>
        /\ \A i \in 1..Len(preview) :
               /\ preview[i].intf = S_unknown => preview[i].lines = <<S_skipping>>
               /\ \A k \in 1..Len(preview[i].lines) :
                      /\ \A c \in SentinelCommands : preview[i].lines[k] # S_indent2 \o c
                      /\ preview[i].lines[k] = S_skipping => preview[i].intf = S_unknown
        /\ \A i \in 1..Len(sent) :
               /\ sent[i].intf # S_unknown
               /\ \A k \in 1..Len(sent[i].commands) :
                      sent[i].commands[k] \notin SentinelCommands
        /\ outcome = "applied" =>
               skipped = IF S_unknown \in DOMAIN interfaces THEN <<S_unknown>> ELSE <<>>

C12_Witness ==
    /\ prog = "ap_renamer"
    /\ outcome = "applied"
    /\ S_unknown \in DOMAIN interfaces
    /\ skipped = <<S_unknown>>
    /\ sent # <<>>
    /\ do_default

\* the description text the claim names for interface x: the hostname of the
\* detail mapping when it has one for x, else the first device seen on x
ClaimedDescription(x) ==
    IF x \in DOMAIN cdp_map THEN cdp_map[x] ELSE interfaces[x][1]

\* C13: every batch sent is exactly: `default interface <name>` iff the
\* default flag is on; `interface <name>`; `description <text>` iff the
\* description flag is on, with the text of the detail mapping when it has
\* the interface and else the first summary-scan device; then the body lines
\* in order.  The text is never empty.
C13_BatchContent ==
    prog = "ap_renamer" =>
        \A i \in 1..Len(sent) :
            LET x == sent[i].intf
            IN /\ x \in DOMAIN interfaces
               /\ ClaimedDescription(x) # <<>>
               /\ sent[i].commands =
                      (IF do_default THEN <<S_default_interface \o x>> ELSE <<>>)
                      \o <<S_interface \o x>>
                      \o (IF do_desc THEN <<S_description \o ClaimedDescription(x)>>
                          ELSE <<>>)
                      \o user_lines

C13_Witness ==
    /\ prog = "ap_renamer"
    /\ outcome = "applied"
    /\ do_default /\ do_desc /\ user_lines # <<>>
    /\ \E i, j \in 1..Len(sent) :
           /\ sent[i].intf \in DOMAIN cdp_map
           /\ cdp_map[sent[i].intf] # interfaces[sent[i].intf][1]
           /\ sent[j].intf \notin DOMAIN cdp_map

\* C17: a failure of the detail command is swallowed: the mapping is empty,
\* the iteration goes on to the configure prompt with the session open and
\* the interfaces unchanged, and every description previewed or sent is the
\* first device the summary scan saw on its interface.
C17_DetailFailureSwallowed ==
    /\ [][(prog = "ap_renamer" /\ pc = "ShowCdpDetail" /\ "detail" \in failures') =>
             /\ pc' = "AskConfigure"
             /\ cdp_map' = EmptyDict
             /\ interfaces' = interfaces
             /\ ssh' = "open"
             /\ outcome' = ""]_vars
    /\ []((prog = "ap_renamer" /\ "detail" \in failures) =>
            /\ cdp_map = EmptyDict
            /\ pc # "Crashed"
            /\ \A i \in 1..Len(preview) :
                   (do_desc /\ preview[i].intf # S_unknown) =>
                       preview[i].lines[IF do_default THEN 3 ELSE 2]
                           = S_indent4 \o S_description \o interfaces[preview[i].intf][1]
            /\ \A i \in 1..Len(sent) :
                   do_desc =>
                       sent[i].commands[IF do_default THEN 3 ELSE 2]
                           = S_description \o interfaces[sent[i].intf][1])

C17_Witness ==
    /\ prog = "ap_renamer"
    /\ "detail" \in failures
    /\ outcome = "applied"
    /\ do_desc
    /\ Len(sent) = 2
    /\ Len(interfaces[sent[2].intf]) = 2

\* the lines and toggles of this round, as a save would store them
RoundConfig == <<Some(user_lines), Some(do_default), Some(do_desc)>>

\* C18: the persisted lines, default toggle and description toggle are
\* written only together and only by an affirmative answer to the save
\* prompt: they are all unset or all set; a step changes them only by
\* storing the three values of the current round at the save prompt; any
\* other answer to the save prompt leaves all three unchanged; and accepting
\* the reuse offer makes the round's lines and toggles the persisted ones.
C18_PersistedWrittenTogether ==
    /\ [](prog = "ap_renamer" =>
            \/ persisted = <<None, None, None>>
            \/ prev_user_lines # None /\ prev_do_default # None /\ prev_do_desc # None)
    /\ [][prog = "ap_renamer" =>
             /\ persisted' # persisted =>
                    /\ pc = "AskSave"
                    /\ save_cfg' = Some(Yes)
                    /\ prev_user_lines' = Some(user_lines)
                    /\ prev_do_default' = Some(do_default)
                    /\ prev_do_desc' = Some(do_desc)
             /\ (pc = "AskSave" /\ save_cfg' # Some(Yes)) => persisted' = persisted
             /\ (pc = "AskReuse" /\ pc' = "AskSave") =>
                    /\ user_lines' = prev_user_lines[1]
                    /\ do_default' = prev_do_default[1]
                    /\ do_desc' = prev_do_desc[1]]_vars

C18_Witness ==
    /\ prog = "ap_renamer"
    /\ devices = 2
    /\ pc = "Confirm"
    /\ save_cfg # None /\ save_cfg # Some(Yes)
    /\ persisted = prevAtStart
    /\ prev_user_lines # None
    /\ persisted # RoundConfig

\* the groups of the preview that plan commands: all but the skip notices
PlannedGroups == SelectSeq(preview, LAMBDA g : g.lines # <<S_skipping>>)

\* C19: in a round that reaches Applying the batches sent are the groups of
\* the preview: the same interfaces, each once and in ascending order, and
\* for each the same commands in the same order (a preview line is its
\* command behind two or four blanks).  While the loop runs the batches sent
\* are the first groups of the preview; when it ends they are all of them.
C19_SentMatchesPreview ==
    (prog = "ap_renamer" /\ (pc = "Applying" \/ outcome = "applied")) =>
        /\ Len(sent) <= Len(PlannedGroups)
        /\ outcome = "applied" => Len(sent) = Len(PlannedGroups)
        /\ \A i, j \in 1..Len(PlannedGroups) :
               i < j => StrLess(PlannedGroups[i].intf, PlannedGroups[j].intf)
        /\ \A i \in 1..Len(sent) :
               /\ sent[i].intf = PlannedGroups[i].intf
               /\ Len(sent[i].commands) = Len(PlannedGroups[i].lines)
               /\ \A k \in 1..Len(sent[i].commands) :
                      PlannedGroups[i].lines[k]
                          \in {S_indent2 \o sent[i].commands[k],
                               S_indent4 \o sent[i].commands[k]}

C19_Witness ==
    /\ prog = "ap_renamer"
    /\ outcome = "applied"
    /\ Len(sent) = 2
    /\ do_default /\ do_desc /\ user_lines # <<>>
    /\ \E i \in 1..2 : Len(interfaces[sent[i].intf]) = 2

\* C20: every round that reaches the save prompt, the final confirmation or
\* Applying, also one that reuses persisted lines, has the description flag
\* on or at least one configuration line, and so has whatever is persisted;
\* a round with no lines and the flag off sends no batch, is never asked to
\* confirm, and ends at the continue prompt with the session closed.
C20_NeverAnEmptyRound ==
    prog = "ap_renamer" =>
        /\ (pc \in {"AskSave", "Confirm", "Applying"} \/ confirm # None \/ sent # <<>>)
               => (do_desc \/ user_lines # <<>>)
        /\ prev_user_lines # None => (prev_do_desc[1] \/ prev_user_lines[1] # <<>>)
        /\ outcome = "nothing_to_do" =>
               /\ user_lines = <<>> /\ ~do_desc
               /\ sent = <<>> /\ confirm = None /\ preview = <<>>
               /\ ssh = "closed" /\ openSessions = 0
               /\ pc = "AskAgainInTry" \/ again # None

C20_Witness ==
    /\ prog = "ap_renamer"
    /\ devices = 2
    /\ pc = "Applying"
    /\ prevAtStart = <<Some(<<>>), Some(TRUE), Some(TRUE)>>
    /\ user_lines = <<>>
    /\ do_desc

\* the lines of config_cmds that select an interface
InterfaceLines ==
    {i \in 1..Len(config_cmds) : StartsWith(config_cmds[i], S_interface)}

\* C11: in the policy-driven flow the emitted command list holds at most one
\* `interface <name>` block, and so the config of at most one policy, for
\* any interface name.
C11_OnePolicyPerInterface ==
    prog = "lldp_renamer" =>
        \A i, j \in InterfaceLines : config_cmds[i] = config_cmds[j] => i = j

(***************************************************************************)
(* The harness of the two LLDP parsers: an output of 'show lldp neighbors  *)
(* detail' is written from the fields of its blocks and handed to the      *)
(* parser of lldp_renamer.py or to the parser of ap_renamer1.py.           *)
(***************************************************************************)

\* the most blocks an output of the harness holds
MaxBlocks == 2

\* a field is absent (None) or holds the text printed after its label
BlockFields ==
    [local_intf : {None, Some(<<>>), Some(<<"G","i","1","/","0","/","2","4">>),
                   Some(<<" ","T","e","1","/","1","/","1"," ">>)},
     system_name : {None, Some(<<"A","P","-","R","O","O","F","-","3">>)},
     system_description : {None, Some(<<"A","R","I","S","T","A"," ","A","P"," ","C","-","1","3","0">>)}]

RECURSIVE FieldLists(_)
FieldLists(n) ==
    IF n = 0 THEN {<<>>}
    ELSE FieldLists(n - 1)
         \cup {Append(l, b) : l \in {x \in FieldLists(n - 1) : Len(x) = n - 1},
                              b \in BlockFields}

\* one block as the device prints it: the separator line, then a line for
\* each field present; the description is on the line after its label
RenderBlock(b) ==
    S_block_separator \o <<"\n">>
    \o (IF b.local_intf = None THEN <<>>
        ELSE S_local_intf \o <<" ">> \o b.local_intf[1] \o <<"\n">>)
    \o (IF b.system_name = None THEN <<>>
        ELSE S_system_name \o <<" ">> \o b.system_name[1] \o <<"\n">>)
    \o (IF b.system_description = None THEN <<>>
        ELSE S_system_description \o <<"\n">> \o b.system_description[1] \o <<"\n">>)

RECURSIVE RenderBlocks(_)
RenderBlocks(l) ==
    IF l = <<>> THEN <<>> ELSE RenderBlock(Head(l)) \o RenderBlocks(Tail(l))

InitLldpParse ==
    /\ prog = "parse_lldp"
    /\ pc = "output"
    /\ fields \in FieldLists(MaxBlocks)
    /\ lldp_output = RenderBlocks(fields)
    /\ records = <<>>
    /\ NormalizeIdle
    /\ CdpParseIdle
    /\ LldpIdle
    /\ OrchestratorIdle

\* neighbors = parse_lldp_neighbors(lldp_output) in lldp_renamer.py
ParseLldp ==
    /\ prog = "parse_lldp"
    /\ pc = "output"
    /\ records' = parse_lldp_neighbors(lldp_output)
    /\ pc' = "lldp_renamer"
    /\ UNCHANGED <<prog, normalizing, fields, lldp_output, cdpParsing, lldp, devices, login,
                   sessionState, conn, discovery, config, answers, applying, leaving,
                   history>>

\* neighbors = parse_lldp_neighbors(lldp_output) in ap_renamer1.py
ParseLldp1 ==
    /\ prog = "parse_lldp"
    /\ pc = "output"
    /\ records' = parse_lldp_neighbors1(lldp_output)
    /\ pc' = "ap_renamer1"
    /\ UNCHANGED <<prog, normalizing, fields, lldp_output, cdpParsing, lldp, devices, login,
                   sessionState, conn, discovery, config, answers, applying, leaving,
                   history>>

NextLldpParse == ParseLldp \/ ParseLldp1

SpecLldpParse == InitLldpParse /\ [][NextLldpParse]_vars

\* the text of a field: empty when the field is absent
FieldText(f) == IF f = None THEN <<>> ELSE Strip(f[1])

Parsed == prog = "parse_lldp" /\ pc \in {"lldp_renamer", "ap_renamer1"}

\* the blocks a record comes from: those with a non-empty local interface
\* and, in ap_renamer1.py, a non-empty description
Sources ==
    SelectSeq(fields,
              LAMBDA b : /\ FieldText(b.local_intf) # <<>>
                         /\ pc = "ap_renamer1" => FieldText(b.system_description) # <<>>)

\* C14 as claimed: the local_intf of every record the LLDP parser returns is
\* normalize applied to the raw value of the block's `Local Intf:` field.
C14_LocalIntfNormalized ==
    Parsed =>
        \A k \in 1..Len(records) :
            /\ k <= Len(Sources)
            /\ records[k].local_intf = normalize_interface_name(Sources[k].local_intf[1])

\* C14 as amended: the local_intf of every record is the raw value of the
\* field with the surrounding whitespace stripped, and nothing more.
C14_LocalIntfStripped ==
    Parsed =>
        \A k \in 1..Len(records) :
            /\ k <= Len(Sources)
            /\ records[k].local_intf = Strip(Sources[k].local_intf[1])

C14_Witness ==
    /\ Parsed
    /\ Len(records) = 2
    /\ records[1].local_intf = <<"G","i","1","/","0","/","2","4">>
    /\ Sources[2].local_intf = Some(<<" ","T","e","1","/","1","/","1"," ">>)

\* C16 as claimed: the parser yields exactly one record for every block in
\* which a local-interface field (one with a value) was found, with the
\* empty string for an absent system name or description, and none for a
\* block without it.
C16_RecordPerLocalIntfField ==
    Parsed =>
        LET found == SelectSeq(fields, LAMBDA b : FieldText(b.local_intf) # <<>>)
        IN /\ Len(records) = Len(found)
           /\ \A k \in 1..Len(records) :
                  records[k].system_description = FieldText(found[k].system_description)

\* C16 as amended: the parser of lldp_renamer.py yields exactly one record
\* for every block whose local-interface field has a non-empty value, with
\* the empty string for an absent name or description; the parser of
\* ap_renamer1.py yields one only when the block also has a non-empty
\* description; no other block yields a record.
C16_RecordPerNonEmptyLocalIntf ==
    Parsed =>
        /\ Len(records) = Len(Sources)
        /\ \A k \in 1..Len(records) :
               /\ records[k].system_description = FieldText(Sources[k].system_description)
               /\ pc = "lldp_renamer" =>
                      records[k].system_name = FieldText(Sources[k].system_name)

C16_Witness ==
    /\ prog = "parse_lldp"
    /\ pc = "lldp_renamer"
    /\ Len(fields) = 2
    /\ fields[1].local_intf = None
    /\ fields[2].local_intf \notin {None, Some(<<>>)}
    /\ fields[2].system_name = None
    /\ fields[2].system_description = None
    /\ records = <<[local_intf |-> Strip(fields[2].local_intf[1]),
                    system_name |-> <<>>, system_description |-> <<>>]>>

(***************************************************************************)
(* The harness of parse_cdp_neighbors_detail: the loop of lines 71-82 is   *)
(* run one line at a time over an output of 'show cdp neighbors detail'.   *)
(***************************************************************************)

\* the most lines an output of the harness holds
MaxCdpLines == 4

\* the lines of the outputs: Device ID lines (one in lower case with a
\* trailing blank, one with no name), Interface lines (the same port in
\* short and in long form, and another port) and a line that is neither
CdpLines ==
    { <<"D","e","v","i","c","e"," ","I","D",":"," ","a","p","1">>,
      <<"d","e","v","i","c","e"," ","i","d",":"," ","a","p","2"," ">>,
      <<"D","e","v","i","c","e"," ","I","D",":"," ">>,
      <<" "," ","I","n","t","e","r","f","a","c","e",":"," ","G","i","1","/","0","/","1",","," "," ","P","o","r","t"," ","I","D"," ","(","o","u","t","g","o","i","n","g"," ","p","o","r","t",")",":"," ","G","i","0">>,
      <<"I","n","t","e","r","f","a","c","e",":"," ","G","i","g","a","b","i","t","E","t","h","e","r","n","e","t","1","/","0","/","1",","," ","P","o","r","t"," ","I","D",":"," ","G","i","0">>,
      <<"i","n","t","e","r","f","a","c","e",":"," ","G","i","1","/","0","/","2",",">>,
      <<"P","l","a","t","f","o","r","m",":"," ","c","i","s","c","o"," ","A","I","R","-","A","P","1","8","1","5">> }

RECURSIVE CdpLineLists(_)
CdpLineLists(n) ==
    IF n = 0 THEN {<<>>}
    ELSE CdpLineLists(n - 1)
         \cup {Append(l, x) : l \in {y \in CdpLineLists(n - 1) : Len(y) = n - 1},
                              x \in CdpLines}

\* lines 67-70: results = {}, current_device = None
InitCdpParse ==
    /\ prog = "parse_cdp"
    /\ pc = "scan"
    /\ cdp_output \in CdpLineLists(MaxCdpLines)
    /\ cdp_rest = cdp_output
    /\ current_device = <<>>
    /\ results = EmptyDict
    /\ emissions = <<>>
    /\ NormalizeIdle
    /\ LldpParseIdle
    /\ LldpIdle
    /\ OrchestratorIdle

\* lines 71-82: one round of the loop
CdpReadLine ==
    /\ prog = "parse_cdp"
    /\ pc = "scan"
    /\ cdp_rest # <<>>
    /\ LET after == CdpLine(Head(cdp_rest), results, current_device)
       IN /\ results' = after.results
          /\ current_device' = after.current_device
          /\ emissions' = emissions \o after.emitted
    /\ cdp_rest' = Tail(cdp_rest)
    /\ UNCHANGED <<prog, pc, normalizing, lldpParsing, cdp_output, lldp, devices, login,
                   sessionState, conn, discovery, config, answers, applying, leaving,
                   history>>

\* line 83: return results
CdpReturn ==
    /\ prog = "parse_cdp"
    /\ pc = "scan"
    /\ cdp_rest = <<>>
    /\ pc' = "returned"
    /\ UNCHANGED <<prog, normalizing, lldpParsing, cdpParsing, lldp, devices, login,
                   sessionState, conn, discovery, config, answers, applying, leaving,
                   history>>

NextCdpParse == CdpReadLine \/ CdpReturn

SpecCdpParse == InitCdpParse /\ [][NextCdpParse]_vars

\* the lines read so far
CdpRead == SubSeq(cdp_output, 1, Len(cdp_output) - Len(cdp_rest))

\* C15: the CDP parser is a single-slot register machine: a Device ID line
\* sets the register to its name, replacing any earlier value, and writes
\* nothing; an Interface line met while the register holds a name writes
\* normalized interface -> name and clears the register; an Interface line
\* met while the register is empty, and any other line, change nothing.  So
\* the entries written never outnumber the Device ID lines read, the mapping
\* holds for every interface the device of its last entry, and the value
\* returned is that mapping.
C15_RegisterMachine ==
    /\ [](prog = "parse_cdp" =>
            /\ Len(emissions)
                   <= Len(SelectSeq(CdpRead, LAMBDA l : DeviceIdMatch(l) # <<>>))
            /\ DOMAIN results = {emissions[i].intf : i \in 1..Len(emissions)}
            /\ \A i \in 1..Len(emissions) :
                   (\A j \in (i + 1)..Len(emissions) :
                        emissions[j].intf # emissions[i].intf)
                   => results[emissions[i].intf] = emissions[i].device
            /\ pc = "returned" => results = parse_cdp_neighbors_detail(cdp_output))
    /\ [][(prog = "parse_cdp" /\ pc = "scan" /\ cdp_rest # <<>>) =>
             LET line == Head(cdp_rest)
                 id == DeviceIdMatch(line)
                 port == InterfaceMatch(line)
             IN IF id # <<>>
                THEN /\ current_device' = id[1]
                     /\ UNCHANGED <<results, emissions>>
                ELSE IF port # <<>> /\ current_device # <<>>
                THEN /\ results' = [k \in DOMAIN results
                                        \cup {normalize_interface_name(port[1])} |->
                                     IF k = normalize_interface_name(port[1])
                                     THEN current_device ELSE results[k]]
                     /\ current_device' = <<>>
                     /\ Len(emissions') = Len(emissions) + 1
                ELSE UNCHANGED <<results, current_device, emissions>>]_vars

C15_Witness ==
    /\ prog = "parse_cdp"
    /\ pc = "returned"
    /\ Len(emissions) = 2
    /\ emissions[1].intf = emissions[2].intf
    /\ emissions[1].device # emissions[2].device
    /\ results[emissions[1].intf] = emissions[2].device
    /\ Len(cdp_output) = 4

(***************************************************************************)
(* The harness of normalize_interface_name.                                *)
(***************************************************************************)

InitNormalize ==
    /\ prog = "normalize"
    /\ pc = "raw"
    /\ raw \in RawTokens
    /\ once = <<>>
    /\ twice = <<>>
    /\ LldpParseIdle
    /\ CdpParseIdle
    /\ LldpIdle
    /\ OrchestratorIdle

NormalizeOnce ==
    /\ prog = "normalize"
    /\ pc = "raw"
    /\ once' = normalize_interface_name(raw)
    /\ pc' = "once"
    /\ UNCHANGED <<prog, raw, twice, lldpParsing, cdpParsing, lldp, devices, login, sessionState, conn,
                   discovery, config, answers, applying, leaving, history>>

NormalizeTwice ==
    /\ prog = "normalize"
    /\ pc = "once"
    /\ twice' = normalize_interface_name(once)
    /\ pc' = "twice"
    /\ UNCHANGED <<prog, raw, once, lldpParsing, cdpParsing, lldp, devices, login, sessionState, conn,
                   discovery, config, answers, applying, leaving, history>>

NextNormalize == NormalizeOnce \/ NormalizeTwice

SpecNormalize == InitNormalize /\ [][NextNormalize]_vars

\* the claim's precondition: the token holds a prefix cue and a slot path
HasCue(s) ==
    LET low == LowerStr(Strip(s))
    IN \/ Contains(low, S_gig) \/ StartsWith(low, S_gi)
       \/ Contains(low, S_ten) \/ StartsWith(low, S_te)
       \/ Contains(low, S_fast) \/ StartsWith(low, S_fa)

HasSlotPath(s) == FirstDigit(s) # 0

\* C9: normalize is idempotent on every raw token that holds a recognized
\* prefix cue and a digit slot path: normalize(normalize(x)) = normalize(x).
C9_NormalizeIdempotent ==
    (pc = "twice" /\ HasCue(raw) /\ HasSlotPath(raw)) => twice = once

====
